---- MODULE Spec2Model ----
(***************************************************************************)
(* Model of the dentwise appointment server actions (appointments module   *)
(* and lib/actions/users.ts).  The store (the User and Appointment tables  *)
(* behind prisma) is the only shared state; every server action is a       *)
(* request run by a process, and a request yields to other requests        *)
(* exactly at its awaited persistence calls.  The voice widget            *)
(* (components/voice/VapiWidget.tsx) is a second, independent machine: its  *)
(* React state, driven by clicks and by the events of the vapi session.    *)
(***************************************************************************)
EXTENDS Integers, Sequences, FiniteSets, TLC

\* ------------------------------------------------------------------ bounds
MaxAppts == 2          \* rows the Appointment table may hold
MaxTranscript == 2  \* final transcripts kept in the list
MaxCalls == 4          \* server actions started in one run

\* --------------------------------------------------------------- constants
maxRetries == 3        \* getCurrentDbUser

Procs == {"p1", "p2"}  \* concurrent requests

NoCaller == "<none>"   \* auth() yields no userId / currentUser() yields null
ClerkIds == {"clerk_a", "clerk_b"}
Callers == ClerkIds \cup {NoCaller}

Omitted == "<undefined>"  \* an optional argument left out
DefaultReason == "General consultation"

AppointmentStatus == {"CONFIRMED", "COMPLETED", "CANCELLED"}

\* Error messages, as the code words them.
ErrBookLogin == "You must be logged in to book an appointment"
ErrBookRequired == "Doctor, date, and time are required"
ErrBookFailed == "Failed to book appointment. Please try again later."
ErrStatsAuth == "You must be authenticated"
ErrNoClerkUser == "No Clerk user found"
ErrUpdateFailed == "Failed to update appointment"
ErrListLogin == "You must be logged in to view appointments"
ErrFetchUser == "Failed to fetch user appointments"
ErrFetchAll == "Failed to fetch appointments"
\* Errors prisma raises.
ErrDb == "PrismaClientKnownRequestError"
ErrUnique == "P2002: Unique constraint failed on the fields: (clerkId)"
ErrNotFound == "P2025: Record to update not found"
ErrValidation == "PrismaClientValidationError: Provided Date object is invalid"

\* ------------------------------------------------------------------- dates
\* new Date(s): a Date is modelled by its day number since 1970-01-01 (the
\* strings used carry no time of day other than midnight UTC); InvalidDate is
\* the Date whose time value is NaN.
InvalidDate == -1
DateStrings ==
  {"", "2024-06-01", "2024-06-01T00:00:00.000Z", "2024-06-02", "not-a-date"}

NewDate(s) ==
  CASE s = "2024-06-01" -> 19875
    [] s = "2024-06-01T00:00:00.000Z" -> 19875
    [] s = "2024-06-02" -> 19876
    [] OTHER -> InvalidDate

\* date.toISOString().split("T")[0]
ToISODate(d) ==
  CASE d = 19875 -> "2024-06-01"
    [] d = 19876 -> "2024-06-02"
    [] OTHER -> "RangeError"

\* JavaScript truthiness of a string-or-undefined value.
Truthy(s) == s # "" /\ s # Omitted

\* ------------------------------------------------------------------ inputs
BaseInput ==
  [doctorId |-> "d1", date |-> "2024-06-01", time |-> "09:00", reason |-> Omitted]

OtherSlot ==
  [doctorId |-> "d2", date |-> "2024-06-02", time |-> "10:00", reason |-> Omitted]

\* The booking inputs drawn: the spec's example input, that input with one
\* argument emptied or replaced, and a booking of another slot.
BookingInputs ==
  {[BaseInput EXCEPT !.doctorId = d] : d \in {"", "d1"}}
  \cup {[BaseInput EXCEPT !.date = d] : d \in DateStrings \ {"2024-06-02"}}
  \cup {[BaseInput EXCEPT !.time = t] : t \in {"", "09:00"}}
  \cup {[BaseInput EXCEPT !.reason = r] : r \in {Omitted, "", "Cleaning"}}
  \cup {OtherSlot}

NoInput == [doctorId |-> "", date |-> "", time |-> "", reason |-> Omitted]

\* ------------------------------------------------------------------- state
VARIABLES
  users,    \* User table: sequence of rows, a row's id is its index
  appts,    \* Appointment table: sequence of rows, a row's id is its index
  pc,       \* per request: where its server action stands
  req,      \* per request: the action, its caller, its arguments and locals
            \* (attempts: calls of ensureUserExists made by getCurrentDbUser;
            \*  prev: the status the row had when updateAppointmentStatus ran)
  result,   \* per request: what the action returned or threw
  logged,   \* per request: the error the action's catch block logged
  dbCalls,  \* per request: persistence calls issued so far
  calls     \* server actions started

\* The voice widget's React state, and the vapi session it listens to.
VARIABLES
  callActive,
  connecting,
  isSpeaking,
  messages,     \* the transcript list
  callEnded,
  startPending, \* a vapi.start() promise is unsettled
  session,      \* the vapi call: "none", "requested", "live" or "over"
  assistantId,  \* process.env.NEXT_PUBLIC_VAPI_ASSISTANT_ID, "" when missing
  event         \* the click or session event handled last, with its message

wvars ==
  <<callActive, connecting, isSpeaking, messages, callEnded, startPending, session,
    assistantId, event>>

svars == <<users, appts, pc, req, result, logged, dbCalls, calls>>

vars == <<users, appts, pc, req, result, logged, dbCalls, calls,
          callActive, connecting, isSpeaking, messages, callEnded, startPending,
          session, assistantId, event>>

NoAppt ==
  [id |-> 0, userId |-> 0, doctorId |-> "", date |-> "", time |-> "",
   reason |-> "", status |-> ""]

NoRow ==
  [id |-> 0, userId |-> 0, doctorId |-> "", date |-> 0, time |-> "",
   reason |-> "", status |-> ""]

NoResult ==
  [kind |-> "none", msg |-> "", appt |-> NoAppt, row |-> NoRow, slots |-> <<>>,
   total |-> 0, completed |-> 0, user |-> 0, list |-> <<>>]

NoReq ==
  [op |-> "", caller |-> NoCaller, input |-> NoInput, id |-> 0, status |-> "",
   user |-> 0, total |-> -1, completed |-> -1, retries |-> 0, attempts |-> 0,
   prev |-> ""]

\* The payload of a vapi "message" event; fields a message lacks are Omitted.
NoMessage ==
  [type |-> Omitted, transcriptType |-> Omitted, transcript |-> Omitted, role |-> Omitted]

\* useState initial values; no call was requested yet.
WidgetInit ==
  /\ event = [name |-> "none", msg |-> NoMessage]
  /\ callActive = FALSE
  /\ connecting = FALSE
  /\ isSpeaking = FALSE
  /\ messages = <<>>
  /\ callEnded = FALSE
  /\ startPending = FALSE
  /\ session = "none"

\* The empty store, no request in flight.
StoreInit ==
  /\ users = <<>>
  /\ appts = <<>>
  /\ pc = [p \in Procs |-> "idle"]
  /\ req = [p \in Procs |-> NoReq]
  /\ result = [p \in Procs |-> NoResult]
  /\ logged = [p \in Procs |-> ""]
  /\ dbCalls = [p \in Procs |-> 0]
  /\ calls = 0

Init ==
  /\ WidgetInit
  /\ assistantId = "asst_1"
  /\ StoreInit

\* ------------------------------------------------------------ store access
UserIdOf(clerkId) ==
  IF \E i \in 1..Len(users) : users[i].clerkId = clerkId
    THEN CHOOSE i \in 1..Len(users) : users[i].clerkId = clerkId
    ELSE 0

\* The profile the identity provider holds for a caller.
ClerkEmail(c) == IF c = "clerk_a" THEN "a@example.com" ELSE "b@example.com"

UserRow(c) == [clerkId |-> c, email |-> ClerkEmail(c)]

\* transformAppointment: the stored row with its date as a calendar-date string
\* (the joined display fields of user and doctor are not modelled).
transformAppointment(id, row) ==
  [id |-> id, userId |-> row.userId, doctorId |-> row.doctorId,
   date |-> ToISODate(row.date), time |-> row.time, reason |-> row.reason,
   status |-> row.status]

\* A row as prisma returns it (its date a Date).
StoredRow(id, row) ==
  [id |-> id, userId |-> row.userId, doctorId |-> row.doctorId, date |-> row.date,
   time |-> row.time, reason |-> row.reason, status |-> row.status]

\* bookings that passed their checks and have not inserted their row yet
Booking(p) == req[p].op = "bookAppointment" /\ pc[p] \in {"findUser", "createUser", "insert"}
InFlight == Cardinality({p \in Procs : Booking(p)})

\* ----------------------------------------------------------- catch blocks
\* Mutant: the read actions wrap and rethrow like the write actions.
Catch_ReadsRethrow(op, err) ==
  CASE op = "bookAppointment" -> [NoResult EXCEPT !.kind = "error", !.msg = ErrBookFailed]
    [] op = "updateAppointmentStatus" ->
         [NoResult EXCEPT !.kind = "error", !.msg = ErrUpdateFailed]
    [] op = "getUserAppointments" ->
         [NoResult EXCEPT !.kind = "error", !.msg = ErrFetchUser]
    [] op = "getAppointments" -> [NoResult EXCEPT !.kind = "error", !.msg = ErrFetchAll]
    [] OTHER -> [NoResult EXCEPT !.kind = "error", !.msg = err]

\* What an action's catch block turns a thrown error into.
Catch(op, err) ==
  CASE op = "bookAppointment" -> [NoResult EXCEPT !.kind = "error", !.msg = ErrBookFailed]
    [] op = "getUserAppointmentStats" ->
         [NoResult EXCEPT !.kind = "ok", !.total = 0, !.completed = 0]
    [] op = "getBookedTimeSlots" -> [NoResult EXCEPT !.kind = "ok", !.slots = <<>>]
    [] op = "updateAppointmentStatus" ->
         [NoResult EXCEPT !.kind = "error", !.msg = ErrUpdateFailed]
    [] op = "getUserAppointments" ->
         [NoResult EXCEPT !.kind = "error", !.msg = ErrFetchUser]
    [] op = "getAppointments" -> [NoResult EXCEPT !.kind = "error", !.msg = ErrFetchAll]
    [] OTHER -> [NoResult EXCEPT !.kind = "error", !.msg = err]

\* The request throws err inside its try block.
Throw(p, err) ==
  /\ pc' = [pc EXCEPT ![p] = "done"]
  /\ result' = [result EXCEPT ![p] = Catch(req[p].op, err)]
  /\ logged' = [logged EXCEPT ![p] = err]

Start(p, r) ==
  /\ pc[p] = "idle"
  /\ UNCHANGED wvars
  /\ calls < MaxCalls
  /\ calls' = calls + 1
  /\ req' = [req EXCEPT ![p] = r]

\* ------------------------------------------------- ensureUserExists helper
\* Where an action goes on once the helper has returned its user.
AfterHelper(op) ==
  CASE op = "bookAppointment" -> "insert"
    [] op = "getUserAppointments" -> "list"
    [] OTHER -> "count"

\* currentUser() and prisma.user.findUnique
HelperFind(p) ==
  /\ pc[p] = "findUser"
  /\ UNCHANGED wvars
  /\ UNCHANGED <<users, appts, calls>>
  /\ \/ \* currentUser() yields null
        /\ Throw(p, ErrNoClerkUser)
        /\ UNCHANGED <<req, dbCalls>>
     \/ \* findUnique fails
        /\ Throw(p, ErrDb)
        /\ dbCalls' = [dbCalls EXCEPT ![p] = @ + 1]
        /\ UNCHANGED req
     \/ /\ dbCalls' = [dbCalls EXCEPT ![p] = @ + 1]
        /\ req' = [req EXCEPT ![p].user = UserIdOf(req[p].caller)]
        /\ pc' = [pc EXCEPT ![p] =
                    IF UserIdOf(req[p].caller) = 0 THEN "createUser"
                    ELSE AfterHelper(req[p].op)]
        /\ UNCHANGED <<result, logged>>

\* prisma.user.create
HelperCreate(p) ==
  /\ pc[p] = "createUser"
  /\ UNCHANGED wvars
  /\ dbCalls' = [dbCalls EXCEPT ![p] = @ + 1]
  /\ UNCHANGED <<appts, calls>>
  /\ \/ /\ Throw(p, ErrDb)
        /\ UNCHANGED <<users, req>>
     \/ /\ UserIdOf(req[p].caller) # 0
        /\ Throw(p, ErrUnique)
        /\ UNCHANGED <<users, req>>
     \/ /\ UserIdOf(req[p].caller) = 0
        /\ users' = Append(users, UserRow(req[p].caller))
        /\ req' = [req EXCEPT ![p].user = Len(users) + 1]
        /\ pc' = [pc EXCEPT ![p] = AfterHelper(req[p].op)]
        /\ UNCHANGED <<result, logged>>

\* ---------------------------------------------------------- bookAppointment
\* Mutant: the required-arguments check is missing.
BookPrecheck_NoValidation(caller, input) ==
  IF caller = NoCaller THEN ErrBookLogin ELSE ""

\* The checks before the first persistence call: the error thrown, or "".
BookPrecheck(caller, input) ==
  IF caller = NoCaller THEN ErrBookLogin
  ELSE IF input.doctorId = "" \/ input.date = "" \/ input.time = "" THEN ErrBookRequired
  ELSE ""

BookCall(p, c, i) ==
    /\ Len(appts) + InFlight < MaxAppts
    /\ Start(p, [NoReq EXCEPT !.op = "bookAppointment", !.caller = c, !.input = i])
    /\ UNCHANGED <<users, appts, dbCalls>>
    /\ IF BookPrecheck(c, i) # ""
         THEN /\ pc' = [pc EXCEPT ![p] = "done"]
              /\ result' = [result EXCEPT ![p] = Catch("bookAppointment", BookPrecheck(c, i))]
              /\ logged' = [logged EXCEPT ![p] = BookPrecheck(c, i)]
         ELSE /\ pc' = [pc EXCEPT ![p] = "findUser"]
              /\ UNCHANGED <<result, logged>>

\* Mutant: the reason is stored as given, with no default.
NewAppointment_NoDefault(userId, input) ==
  [userId |-> userId, doctorId |-> input.doctorId, date |-> NewDate(input.date),
   time |-> input.time, reason |-> input.reason, status |-> "CONFIRMED"]

\* The row prisma.appointment.create is given.
NewAppointment(userId, input) ==
  [userId |-> userId, doctorId |-> input.doctorId, date |-> NewDate(input.date),
   time |-> input.time,
   reason |-> IF Truthy(input.reason) THEN input.reason ELSE DefaultReason,
   status |-> "CONFIRMED"]

BookInsert(p) ==
  /\ pc[p] = "insert"
  /\ UNCHANGED wvars
  /\ req[p].op = "bookAppointment"
  /\ dbCalls' = [dbCalls EXCEPT ![p] = @ + 1]
  /\ UNCHANGED <<users, req, calls>>
  /\ LET row == NewAppointment(req[p].user, req[p].input) IN
     \/ /\ Throw(p, ErrDb)
        /\ UNCHANGED appts
     \/ /\ row.date = InvalidDate
        /\ Throw(p, ErrValidation)
        /\ UNCHANGED appts
     \/ /\ row.date # InvalidDate
        /\ appts' = Append(appts, row)
        /\ pc' = [pc EXCEPT ![p] = "done"]
        /\ result' = [result EXCEPT ![p] =
              [NoResult EXCEPT !.kind = "ok",
                               !.appt = transformAppointment(Len(appts) + 1, row)]]
        /\ UNCHANGED logged

\* -------------------------------------------------- updateAppointmentStatus
\* Mutant: the update has no where clause and touches every row.
SetStatus_AllRows(tbl, id, s) == [i \in 1..Len(tbl) |-> [tbl[i] EXCEPT !.status = s]]

\* Mutant: a guarded state machine, CANCELLED and COMPLETED are terminal.
SetStatus_Guarded(tbl, id, s) ==
  IF tbl[id].status = "CONFIRMED" THEN [tbl EXCEPT ![id].status = s] ELSE tbl

\* prisma.appointment.update({ where: { id }, data: { status } }): the table after it.
SetStatus(tbl, id, s) == [tbl EXCEPT ![id].status = s]

updateAppointmentStatus(p, c, id, s) ==
    /\ Start(p, [NoReq EXCEPT !.op = "updateAppointmentStatus", !.caller = c,
                              !.id = id, !.status = s,
                              !.prev = IF id <= Len(appts) THEN appts[id].status ELSE ""])
    /\ dbCalls' = [dbCalls EXCEPT ![p] = @ + 1]
    /\ UNCHANGED users
    /\ \/ /\ pc' = [pc EXCEPT ![p] = "done"]
          /\ result' = [result EXCEPT ![p] = Catch("updateAppointmentStatus", ErrDb)]
          /\ logged' = [logged EXCEPT ![p] = ErrDb]
          /\ UNCHANGED appts
       \/ /\ id > Len(appts)
          /\ pc' = [pc EXCEPT ![p] = "done"]
          /\ result' = [result EXCEPT ![p] = Catch("updateAppointmentStatus", ErrNotFound)]
          /\ logged' = [logged EXCEPT ![p] = ErrNotFound]
          /\ UNCHANGED appts
       \/ /\ id <= Len(appts)
          /\ appts' = SetStatus(appts, id, s)
          /\ pc' = [pc EXCEPT ![p] = "done"]
          /\ result' = [result EXCEPT ![p] =
                [NoResult EXCEPT !.kind = "ok", !.row = StoredRow(id, appts'[id])]]
          /\ UNCHANGED logged

\* ------------------------------------------------------- getBookedTimeSlots
\* Mutant: the status condition is missing.
SlotFilter_AnyStatus(row, doctorId, date) ==
  row.doctorId = doctorId /\ row.date = date

\* where: { doctorId, date, status: { in: ["CONFIRMED", "COMPLETED"] } }
SlotFilter(row, doctorId, date) ==
  /\ row.doctorId = doctorId
  /\ row.date = date
  /\ row.status \in {"CONFIRMED", "COMPLETED"}

\* The times of the rows the query selects, in table order.
RECURSIVE BookedTimes(_, _, _)
BookedTimes(tbl, doctorId, date) ==
  IF tbl = <<>> THEN <<>>
  ELSE (IF SlotFilter(Head(tbl), doctorId, date) THEN <<Head(tbl).time>> ELSE <<>>)
         \o BookedTimes(Tail(tbl), doctorId, date)

getBookedTimeSlots(p, d, date) ==
    /\ Start(p, [NoReq EXCEPT !.op = "getBookedTimeSlots",
                              !.input = [NoInput EXCEPT !.doctorId = d, !.date = date]])
    /\ dbCalls' = [dbCalls EXCEPT ![p] = @ + 1]
    /\ UNCHANGED <<users, appts>>
    /\ pc' = [pc EXCEPT ![p] = "done"]
    /\ \/ /\ result' = [result EXCEPT ![p] = Catch("getBookedTimeSlots", ErrDb)]
          /\ logged' = [logged EXCEPT ![p] = ErrDb]
       \/ /\ NewDate(date) = InvalidDate
          /\ result' = [result EXCEPT ![p] = Catch("getBookedTimeSlots", ErrValidation)]
          /\ logged' = [logged EXCEPT ![p] = ErrValidation]
       \/ /\ NewDate(date) # InvalidDate
          /\ result' = [result EXCEPT ![p] =
                [NoResult EXCEPT !.kind = "ok",
                                 !.slots = BookedTimes(appts, d, NewDate(date))]]
          /\ UNCHANGED logged

\* --------------------------------------------------- getUserAppointmentStats
StatsCall(p, c) ==
  /\ Start(p, [NoReq EXCEPT !.op = "getUserAppointmentStats", !.caller = c])
  /\ UNCHANGED <<users, appts, dbCalls>>
  /\ IF c = NoCaller
       THEN /\ pc' = [pc EXCEPT ![p] = "done"]
            /\ result' = [result EXCEPT ![p] = Catch("getUserAppointmentStats", ErrStatsAuth)]
            /\ logged' = [logged EXCEPT ![p] = ErrStatsAuth]
       ELSE /\ pc' = [pc EXCEPT ![p] = "findUser"]
            /\ UNCHANGED <<result, logged>>

\* prisma.appointment.count({ where })
CountWhere(tbl, userId, statuses) ==
  Cardinality({i \in 1..Len(tbl) : tbl[i].userId = userId /\ tbl[i].status \in statuses})

\* The two count queries of Promise.all are issued together and answered in
\* either order; the action returns once both have answered, and its catch
\* block runs as soon as one of them fails.
StatsAnswer(p, r) ==
  IF r.total >= 0 /\ r.completed >= 0
    THEN /\ pc' = [pc EXCEPT ![p] = "done"]
         /\ result' = [result EXCEPT ![p] =
               [NoResult EXCEPT !.kind = "ok", !.total = r.total,
                                !.completed = r.completed]]
         /\ UNCHANGED logged
    ELSE UNCHANGED <<pc, result, logged>>

StatsCountTotal(p) ==
  /\ pc[p] = "count"
  /\ UNCHANGED wvars
  /\ req[p].total = -1
  /\ dbCalls' = [dbCalls EXCEPT ![p] = @ + 1]
  /\ UNCHANGED <<users, appts, calls>>
  /\ \/ /\ Throw(p, ErrDb)
        /\ UNCHANGED req
     \/ LET r == [req[p] EXCEPT !.total = CountWhere(appts, req[p].user, AppointmentStatus)]
        IN /\ req' = [req EXCEPT ![p] = r]
           /\ StatsAnswer(p, r)

StatsCountCompleted(p) ==
  /\ pc[p] = "count"
  /\ UNCHANGED wvars
  /\ req[p].completed = -1
  /\ dbCalls' = [dbCalls EXCEPT ![p] = @ + 1]
  /\ UNCHANGED <<users, appts, calls>>
  /\ \/ /\ Throw(p, ErrDb)
        /\ UNCHANGED req
     \/ LET r == [req[p] EXCEPT !.completed = CountWhere(appts, req[p].user, {"COMPLETED"})]
        IN /\ req' = [req EXCEPT ![p] = r]
           /\ StatsAnswer(p, r)

\* ------------------------------------------ getAppointments, getUserAppointments
\* The place of a time label in the string order the database sorts by.
LabelRank(t) ==
  CASE t = "" -> 0
    [] t = "09:00" -> 1
    [] t = "10:00" -> 2
    [] OTHER -> 3

\* A row's createdAt: rows are appended as they are created, so a row's index
\* orders its creation time.
CreatedAt(i) == i

\* Mutant: the secondary sort key is missing.
UserOrderBefore_DateOnly(tbl, i, j) == tbl[i].date < tbl[j].date

\* orderBy: [{ date: "asc" }, { time: "asc" }]: row i sorts before row j.
UserOrderBefore(tbl, i, j) ==
  \/ tbl[i].date < tbl[j].date
  \/ tbl[i].date = tbl[j].date /\ LabelRank(tbl[i].time) < LabelRank(tbl[j].time)

\* orderBy: { createdAt: "desc" }: row i sorts before row j.
AllOrderBefore(tbl, i, j) == CreatedAt(i) > CreatedAt(j)

\* Row i sorts before row j under the orderBy named.
Before(orderBy, tbl, i, j) ==
  IF orderBy = "date,time" THEN UserOrderBefore(tbl, i, j) ELSE AllOrderBefore(tbl, i, j)

\* findMany with an orderBy: the selected rows in that order (rows equal under
\* the order are kept in table order), each transformed.
OrderedRows(tbl, ids, orderBy) ==
  LET Place(i) ==
        1 + Cardinality({j \in ids :
              Before(orderBy, tbl, j, i) \/ (~Before(orderBy, tbl, i, j) /\ j < i)})
  IN [k \in 1..Cardinality(ids) |->
        LET i == CHOOSE i \in ids : Place(i) = k
        IN transformAppointment(i, tbl[i])]

getAppointments(p) ==
  /\ Start(p, [NoReq EXCEPT !.op = "getAppointments"])
  /\ dbCalls' = [dbCalls EXCEPT ![p] = @ + 1]
  /\ UNCHANGED <<users, appts>>
  /\ pc' = [pc EXCEPT ![p] = "done"]
  /\ \/ /\ result' = [result EXCEPT ![p] = Catch("getAppointments", ErrDb)]
        /\ logged' = [logged EXCEPT ![p] = ErrDb]
     \/ /\ result' = [result EXCEPT ![p] =
              [NoResult EXCEPT !.kind = "ok",
                 !.list = OrderedRows(appts, 1..Len(appts), "createdAt")]]
        /\ UNCHANGED logged

ListUserCall(p, c) ==
  /\ Start(p, [NoReq EXCEPT !.op = "getUserAppointments", !.caller = c])
  /\ UNCHANGED <<users, appts, dbCalls>>
  /\ IF c = NoCaller
       THEN /\ pc' = [pc EXCEPT ![p] = "done"]
            /\ result' = [result EXCEPT ![p] = Catch("getUserAppointments", ErrListLogin)]
            /\ logged' = [logged EXCEPT ![p] = ErrListLogin]
       ELSE /\ pc' = [pc EXCEPT ![p] = "findUser"]
            /\ UNCHANGED <<result, logged>>

\* prisma.appointment.findMany({ where: { userId: user.id }, orderBy })
ListUserQuery(p) ==
  /\ pc[p] = "list"
  /\ UNCHANGED wvars
  /\ dbCalls' = [dbCalls EXCEPT ![p] = @ + 1]
  /\ UNCHANGED <<users, appts, req, calls>>
  /\ \/ Throw(p, ErrDb)
     \/ /\ pc' = [pc EXCEPT ![p] = "done"]
        /\ result' = [result EXCEPT ![p] =
              [NoResult EXCEPT !.kind = "ok",
                 !.list = OrderedRows(appts,
                            {i \in 1..Len(appts) : appts[i].userId = req[p].user},
                            "date,time")]]
        /\ UNCHANGED logged

\* ------------------------------------------------------------ lib/actions/users
\* Mutant: create instead of upsert.
Upsert_CreateOnly(tbl, c) == Append(tbl, UserRow(c))

\* prisma.user.upsert({ where: { clerkId }, update, create }): the table after it.
Upsert(tbl, c) ==
  IF \E i \in 1..Len(tbl) : tbl[i].clerkId = c
    THEN [i \in 1..Len(tbl) |-> IF tbl[i].clerkId = c THEN UserRow(c) ELSE tbl[i]]
    ELSE Append(tbl, UserRow(c))

\* The body shared by syncUser and the exported ensureUserExists; c is what
\* currentUser() yields.
UpsertCurrentUser(p, c) ==
  /\ UNCHANGED appts
  /\ pc' = [pc EXCEPT ![p] = "done"]
  /\ IF c = NoCaller
       THEN /\ result' = [result EXCEPT ![p] = [NoResult EXCEPT !.kind = "null"]]
            /\ UNCHANGED <<users, logged, dbCalls>>
       ELSE /\ dbCalls' = [dbCalls EXCEPT ![p] = @ + 1]
            /\ \/ /\ result' = [result EXCEPT ![p] = Catch(req'[p].op, ErrDb)]
                  /\ logged' = [logged EXCEPT ![p] = ErrDb]
                  /\ UNCHANGED users
               \/ /\ users' = Upsert(users, c)
                  /\ result' = [result EXCEPT ![p] =
                        [NoResult EXCEPT !.kind = "ok", !.user = UserIdOf(c)']]
                  /\ UNCHANGED logged

syncUser(p, c) ==
  /\ Start(p, [NoReq EXCEPT !.op = "syncUser", !.caller = c])
  /\ UpsertCurrentUser(p, c)

ensureUserExists(p, c) ==
  /\ Start(p, [NoReq EXCEPT !.op = "ensureUserExists", !.caller = c])
  /\ UpsertCurrentUser(p, c)

\* getCurrentDbUser
\* Mutant: a failed try is not counted.
CountTry_Skip(r) == r

\* retries++
CountTry(r) == [r EXCEPT !.retries = @ + 1]

\* Mutant: the error of the last try is swallowed and the loop left.
LastTry_Swallowed(err) == [NoResult EXCEPT !.kind = "null"]

\* if (retries === maxRetries) throw error
LastTry(err) == Catch("getCurrentDbUser", err)

GcuCall(p, c) ==
  /\ Start(p, [NoReq EXCEPT !.op = "getCurrentDbUser", !.caller = c])
  /\ pc' = [pc EXCEPT ![p] = "retry"]
  /\ UNCHANGED <<users, appts, result, logged, dbCalls>>

\* One pass of the while loop: one call of ensureUserExists, which yields a
\* user, yields null or throws.
GcuAttempt(p) ==
  /\ pc[p] = "retry"
  /\ UNCHANGED wvars
  /\ req[p].retries < maxRetries
  /\ UNCHANGED <<appts, calls>>
  /\ LET r == [req[p] EXCEPT !.attempts = @ + 1]
         failed == CountTry(r)
     IN \/ \* a user: returned at once
           /\ r.caller # NoCaller
           /\ users' = Upsert(users, r.caller)
           /\ dbCalls' = [dbCalls EXCEPT ![p] = @ + 1]
           /\ req' = [req EXCEPT ![p] = r]
           /\ pc' = [pc EXCEPT ![p] = "done"]
           /\ result' = [result EXCEPT ![p] =
                 [NoResult EXCEPT !.kind = "ok", !.user = UserIdOf(r.caller)']]
           /\ UNCHANGED logged
        \/ \* null: wait, count the try, and leave the loop after the last one
           /\ req' = [req EXCEPT ![p] = failed]
           /\ UNCHANGED <<users, dbCalls, logged>>
           /\ IF failed.retries < maxRetries
                THEN UNCHANGED <<pc, result>>
                ELSE /\ pc' = [pc EXCEPT ![p] = "done"]
                     /\ result' = [result EXCEPT ![p] = [NoResult EXCEPT !.kind = "null"]]
        \/ \* throws: count the try, rethrow on the last one
           /\ r.caller # NoCaller
           /\ req' = [req EXCEPT ![p] = failed]
           /\ dbCalls' = [dbCalls EXCEPT ![p] = @ + 1]
           /\ UNCHANGED users
           /\ IF failed.retries = maxRetries
                THEN /\ pc' = [pc EXCEPT ![p] = "done"]
                     /\ result' = [result EXCEPT ![p] = LastTry(ErrDb)]
                     /\ logged' = [logged EXCEPT ![p] = ErrDb]
                ELSE UNCHANGED <<pc, result, logged>>

\* ------------------------------------------------------------------ return
\* The response is delivered and the request's state is dropped.
Return(p) ==
  /\ pc[p] = "done"
  /\ UNCHANGED wvars
  /\ pc' = [pc EXCEPT ![p] = "idle"]
  /\ req' = [req EXCEPT ![p] = NoReq]
  /\ result' = [result EXCEPT ![p] = NoResult]
  /\ logged' = [logged EXCEPT ![p] = ""]
  /\ dbCalls' = [dbCalls EXCEPT ![p] = 0]
  /\ UNCHANGED <<users, appts, calls>>

\* ------------------------------------------------------------- VapiWidget
Roles == {"assistant", "user"}
Texts == {"hello", "my tooth hurts"}

\* The message events drawn: final and partial transcripts of either speaker,
\* and messages that are no transcript.
VapiMessages ==
  {[type |-> "transcript", transcriptType |-> tt, transcript |-> t, role |-> r] :
     tt \in {"final", "partial"}, t \in Texts, r \in Roles}
  \cup {[NoMessage EXCEPT !.type = "conversation-update"],
        [NoMessage EXCEPT !.type = "speech-update", !.role = "assistant"]}

Handled(name, m) == event' = [name |-> name, msg |-> m]

\* Mutant: the handler leaves the connecting flag as it was.
handleCallStart_KeepsConnecting ==
  /\ callActive' = TRUE
  /\ callEnded' = FALSE
  /\ Handled("call-start", NoMessage)
  /\ UNCHANGED <<connecting, isSpeaking, messages, startPending, assistantId, svars>>

handleCallStart ==
  /\ connecting' = FALSE
  /\ callActive' = TRUE
  /\ callEnded' = FALSE
  /\ Handled("call-start", NoMessage)
  /\ UNCHANGED <<isSpeaking, messages, startPending, assistantId, svars>>

handleCallEnd ==
  /\ callActive' = FALSE
  /\ connecting' = FALSE
  /\ isSpeaking' = FALSE
  /\ callEnded' = TRUE
  /\ Handled("call-end", NoMessage)
  /\ UNCHANGED <<messages, startPending, assistantId, svars>>

handleSpeechStart ==
  /\ isSpeaking' = TRUE
  /\ Handled("speech-start", NoMessage)
  /\ UNCHANGED <<callActive, connecting, messages, callEnded, startPending, assistantId,
                 svars>>

handleSpeechEnd ==
  /\ isSpeaking' = FALSE
  /\ Handled("speech-end", NoMessage)
  /\ UNCHANGED <<callActive, connecting, messages, callEnded, startPending, assistantId,
                 svars>>

\* Mutant: every transcript is kept, partial ones too.
IsFinalTranscript_AnyTranscript(m) == m.type = "transcript"

IsFinalTranscript(m) == m.type = "transcript" /\ m.transcriptType = "final"

handleMessage(m) ==
  /\ IF IsFinalTranscript(m)
       THEN /\ Len(messages) < MaxTranscript
            /\ messages' = Append(messages, [content |-> m.transcript, role |-> m.role])
       ELSE UNCHANGED messages
  /\ Handled("message", m)
  /\ UNCHANGED <<callActive, connecting, isSpeaking, callEnded, startPending, assistantId,
                 svars>>

handleError ==
  /\ connecting' = FALSE
  /\ callActive' = FALSE
  /\ Handled("error", NoMessage)
  /\ UNCHANGED <<isSpeaking, messages, callEnded, startPending, assistantId, svars>>

\* A click on the call button, which is disabled while connecting.  With a call
\* active the click stops it (call-end follows from the session); otherwise it
\* is a start request, which reaches vapi.start only with an assistant id.
toggleCall ==
  /\ ~connecting
  /\ UNCHANGED <<callActive, isSpeaking, assistantId, svars>>
  /\ IF callActive
       THEN /\ Handled("click-stop", NoMessage)
            /\ UNCHANGED <<connecting, messages, callEnded, startPending, session>>
       ELSE /\ Handled("click-start", NoMessage)
            /\ messages' = <<>>
            /\ callEnded' = FALSE
            /\ IF assistantId = ""
                 THEN UNCHANGED <<connecting, startPending, session>>
                 ELSE /\ connecting' = TRUE
                      /\ startPending' = TRUE
                      /\ session' = IF session = "live" THEN "live" ELSE "requested"

\* await vapi.start(assistantId) settles: it resolves, or (below) it is rejected
\* into the catch.
StartResolved ==
  /\ startPending
  /\ startPending' = FALSE
  /\ Handled("start-resolved", NoMessage)
  /\ UNCHANGED <<callActive, connecting, isSpeaking, messages, callEnded, session,
                 assistantId, svars>>

\* A start that was rejected before its call began opens no call.
StartRejected ==
  /\ startPending
  /\ startPending' = FALSE
  /\ connecting' = FALSE
  /\ session' = IF session = "requested" THEN "over" ELSE session
  /\ Handled("start-rejected", NoMessage)
  /\ UNCHANGED <<callActive, isSpeaking, messages, callEnded, assistantId, svars>>

\* ---------------------------------------------------------- specifications
\* Requests served one at a time, every server action with every input drawn.
Next ==
  \E p \in {"p1"} :
    \/ \E c \in Callers, i \in BookingInputs : BookCall(p, c, i)
    \/ HelperFind(p)
    \/ HelperCreate(p)
    \/ BookInsert(p)
    \/ \E c \in {NoCaller, "clerk_a"}, id \in 1..(MaxAppts + 1), s \in AppointmentStatus :
         updateAppointmentStatus(p, c, id, s)
    \/ \E d \in {"d1", "d2"}, date \in DateStrings : getBookedTimeSlots(p, d, date)
    \/ \E c \in Callers : StatsCall(p, c)
    \/ StatsCountTotal(p)
    \/ StatsCountCompleted(p)
    \/ \E c \in Callers : syncUser(p, c)
    \/ \E c \in Callers : ensureUserExists(p, c)
    \/ \E c \in {NoCaller, "clerk_a"} : GcuCall(p, c)
    \/ GcuAttempt(p)
    \/ Return(p)

Spec == Init /\ [][Next]_vars

\* Two requests at a time, on one slot.
NextConc ==
  \E p \in Procs :
    \/ \E c \in ClerkIds : BookCall(p, c, BaseInput)
    \/ HelperFind(p)
    \/ HelperCreate(p)
    \/ BookInsert(p)
    \/ \E c \in ClerkIds : StatsCall(p, c)
    \/ StatsCountTotal(p)
    \/ StatsCountCompleted(p)
    \/ \E c \in ClerkIds : syncUser(p, c)
    \/ \E c \in ClerkIds : ensureUserExists(p, c)
    \/ Return(p)

SpecConc == Init /\ [][NextConc]_vars

\* The bookings drawn for the listings: one day's two labels, booked in either
\* order, and a later day.
ListInputs ==
  {BaseInput, [BaseInput EXCEPT !.time = "10:00"],
   [BaseInput EXCEPT !.date = "2024-06-02"]}

\* Bookings and listings, one request at a time.
NextList ==
  \E p \in {"p1"} :
    \/ \E c \in ClerkIds, i \in ListInputs : BookCall(p, c, i)
    \/ HelperFind(p)
    \/ HelperCreate(p)
    \/ BookInsert(p)
    \/ \E c \in Callers : ListUserCall(p, c)
    \/ ListUserQuery(p)
    \/ getAppointments(p)
    \/ Return(p)

SpecList == Init /\ [][NextList]_vars

\* The booking page offers a label only while getBookedTimeSlots does not return
\* it for the doctor and date.
SlotOffered(i) ==
  \A k \in 1..Len(BookedTimes(appts, i.doctorId, NewDate(i.date))) :
    BookedTimes(appts, i.doctorId, NewDate(i.date))[k] # i.time

\* Bookings of offered labels only, and status updates, one request at a time.
NextFiltered ==
  \E p \in {"p1"} :
    \/ \E c \in ClerkIds, i \in {BaseInput, OtherSlot} :
         SlotOffered(i) /\ BookCall(p, c, i)
    \/ HelperFind(p)
    \/ HelperCreate(p)
    \/ BookInsert(p)
    \/ \E id \in 1..MaxAppts, s \in AppointmentStatus :
         updateAppointmentStatus(p, "clerk_a", id, s)
    \/ Return(p)

SpecFiltered == Init /\ [][NextFiltered]_vars

\* One user's statistics calls, bookings and completions, two requests at a time.
NextStats ==
  \E p \in Procs :
    \/ StatsCall(p, "clerk_a")
    \/ HelperFind(p)
    \/ HelperCreate(p)
    \/ StatsCountTotal(p)
    \/ StatsCountCompleted(p)
    \/ BookCall(p, "clerk_a", BaseInput)
    \/ BookInsert(p)
    \/ \E id \in 1..MaxAppts : updateAppointmentStatus(p, "clerk_a", id, "COMPLETED")
    \/ Return(p)

SpecStats == Init /\ [][NextStats]_vars

\* The widget is mounted with the assistant id configured or missing.
InitWidget ==
  /\ WidgetInit
  /\ assistantId \in {"", "asst_1"}
  /\ StoreInit

\* The widget with clicks and session events in any order.
NextWidgetAny ==
  \/ toggleCall
  \/ StartResolved
  \/ StartRejected
  \/ handleCallStart /\ session' = "live"
  \/ handleCallEnd /\ session' = "over"
  \/ handleSpeechStart /\ UNCHANGED session
  \/ handleSpeechEnd /\ UNCHANGED session
  \/ \E m \in VapiMessages : handleMessage(m) /\ UNCHANGED session
  \/ handleError /\ UNCHANGED session

SpecWidgetAny == InitWidget /\ [][NextWidgetAny]_vars

\* The widget with a session that emits call-start only after a start request,
\* call-end, speech and message events only during the call that call-start
\* opened, and error at any time after a start request.
NextWidget ==
  \/ toggleCall
  \/ StartResolved
  \/ StartRejected
  \/ session = "requested" /\ handleCallStart /\ session' = "live"
  \/ session = "live" /\ handleCallEnd /\ session' = "over"
  \/ session = "live" /\ handleSpeechStart /\ UNCHANGED session
  \/ session = "live" /\ handleSpeechEnd /\ UNCHANGED session
  \/ \E m \in VapiMessages : session = "live" /\ handleMessage(m) /\ UNCHANGED session
  \/ session # "none" /\ handleError /\ UNCHANGED session

SpecWidget == InitWidget /\ [][NextWidget]_vars

\* ------------------------------------------------------------------ claims
Done(p, op) == pc[p] = "done" /\ req[p].op = op

EmptyField(i) == i.doctorId = "" \/ i.date = "" \/ i.time = ""

SameSlot(i, j) ==
  i.doctorId = j.doctorId /\ NewDate(i.date) = NewDate(j.date) /\ i.time = j.time

\* C1 (as claimed): two bookAppointment calls by authenticated callers, in flight
\* together for the same (doctorId, date, time), both succeed whenever the
\* identity provider and the database are up: each returns a CONFIRMED
\* appointment and the table holds two distinct CONFIRMED rows for the slot.
C1_BothBookingsSucceed ==
  \A p, q \in Procs :
    ( /\ p # q
      /\ Done(p, "bookAppointment") /\ Done(q, "bookAppointment")
      /\ req[p].caller # NoCaller /\ req[q].caller # NoCaller
      /\ ~EmptyField(req[p].input) /\ ~EmptyField(req[q].input)
      /\ SameSlot(req[p].input, req[q].input)
      /\ logged[p] \notin {ErrDb, ErrNoClerkUser}
      /\ logged[q] \notin {ErrDb, ErrNoClerkUser} )
    => /\ result[p].kind = "ok" /\ result[q].kind = "ok"
       /\ result[p].appt.status = "CONFIRMED" /\ result[q].appt.status = "CONFIRMED"
       /\ result[p].appt.id # result[q].appt.id
       /\ \A r \in {p, q} :
            /\ result[r].appt.id \in 1..Len(appts)
            /\ appts[result[r].appt.id].status = "CONFIRMED"
            /\ appts[result[r].appt.id].time = req[r].input.time

\* Requests that went through a user-sync path for their caller and came out
\* of it with a user.
Synced(p) ==
  \/ pc[p] \in {"insert", "count", "list"}
  \/ /\ pc[p] = "done"
     /\ req[p].op \in {"syncUser", "ensureUserExists", "bookAppointment"}
     /\ result[p].kind = "ok"

RowsOf(c) == {i \in 1..Len(users) : users[i].clerkId = c}

\* C2: no two user rows share an external id, and after a user-sync call for an
\* external id (syncUser, the exported ensureUserExists, or the helper of booking
\* and the per-user queries), alone or racing another one, exactly one user row
\* has that id.
C2_OneRowPerExternalId ==
  /\ \A i, j \in 1..Len(users) : users[i].clerkId = users[j].clerkId => i = j
  /\ \A p \in Procs : Synced(p) => Cardinality(RowsOf(req[p].caller)) = 1

\* Two first-time sync calls for one external id raced (the loser's create hit
\* the unique index) and one row exists.
C2_Witness ==
  \E p, q \in Procs :
    /\ p # q
    /\ req[p].caller = req[q].caller
    /\ logged[q] = ErrUnique
    /\ Synced(p)
    /\ Cardinality(RowsOf(req[p].caller)) = 1

\* C3: a bookAppointment call with an empty doctorId, date or time ends in the
\* step that starts it, with an error, without a persistence call, and with the
\* user and appointment tables unchanged.
C3_EmptyInputFailsBeforePersistence ==
  [][\A p \in Procs :
       ( /\ pc[p] = "idle"
         /\ req'[p].op = "bookAppointment"
         /\ EmptyField(req'[p].input) )
       => /\ pc'[p] = "done"
          /\ result'[p].kind = "error"
          /\ dbCalls'[p] = 0
          /\ users' = users
          /\ appts' = appts]_vars

\* A signed-in caller's booking with an empty time has failed.
C3_Witness ==
  \E p \in Procs :
    /\ Done(p, "bookAppointment")
    /\ req[p].caller # NoCaller
    /\ req[p].input.time = ""
    /\ req[p].input.doctorId # "" /\ req[p].input.date # ""
    /\ result[p].kind = "error"
    /\ dbCalls[p] = 0

\* C4 (as claimed): the error bookAppointment gives its caller names the cause:
\* the not-logged-in error without a caller identity, the required-arguments
\* error for an empty doctorId, date or time, and the booking-failed error only
\* when a persistence call failed.
C4_ErrorsToldApart ==
  \A p \in Procs :
    (Done(p, "bookAppointment") /\ result[p].kind = "error")
    => /\ req[p].caller = NoCaller => result[p].msg = ErrBookLogin
       /\ (req[p].caller # NoCaller /\ EmptyField(req[p].input))
            => result[p].msg = ErrBookRequired
       /\ result[p].msg = ErrBookFailed
            => logged[p] \in {ErrDb, ErrUnique, ErrValidation}

\* The step in which request p's bookAppointment ends.
BookEnds(p) == req'[p].op = "bookAppointment" /\ pc[p] # "done" /\ pc'[p] = "done"

\* The hypothesis of C5 on that step: a signed-in caller, non-empty arguments,
\* no failure of the identity provider or of a persistence call, and no
\* appointment of the slot that is not cancelled.
C5_Hypothesis(p) ==
  /\ BookEnds(p)
  /\ req'[p].caller # NoCaller
  /\ ~EmptyField(req'[p].input)
  /\ logged'[p] \notin {ErrDb, ErrUnique, ErrValidation, ErrNoClerkUser}
  /\ \A i \in 1..Len(appts) :
       ( /\ appts[i].doctorId = req'[p].input.doctorId
         /\ appts[i].date = NewDate(req'[p].input.date)
         /\ appts[i].time = req'[p].input.time )
       => appts[i].status = "CANCELLED"

\* The booking succeeded, adding one CONFIRMED row of the caller's user with
\* the given doctor, date and time and with the reason named.
C5_Outcome(p, reason) ==
  /\ result'[p].kind = "ok"
  /\ Len(appts') = Len(appts) + 1
  /\ SubSeq(appts', 1, Len(appts)) = appts
  /\ LET row == appts'[Len(appts')]
     IN /\ row.userId \in 1..Len(users')
        /\ users'[row.userId].clerkId = req'[p].caller
        /\ row.status = "CONFIRMED"
        /\ row.doctorId = req'[p].input.doctorId
        /\ row.date = NewDate(req'[p].input.date)
        /\ row.time = req'[p].input.time
        /\ row.reason = reason
  /\ result'[p].appt.id = Len(appts')
  /\ result'[p].appt.status = "CONFIRMED"
  /\ result'[p].appt.reason = reason

\* C5 (as claimed): under the hypothesis the booking succeeds, adds exactly one
\* CONFIRMED row of the caller with the given doctor, date and time, and its
\* reason is the given reason, or "General consultation" when it is omitted.
C5_Original ==
  [][\A p \in Procs :
       C5_Hypothesis(p)
       => C5_Outcome(p, IF req'[p].input.reason = Omitted THEN DefaultReason
                        ELSE req'[p].input.reason)]_vars

\* C5 (amended): under the hypothesis the booking succeeds, adds exactly one
\* CONFIRMED row of the caller with the given doctor, date and time, and its
\* reason is the given reason when that is a non-empty string, and "General
\* consultation" when the reason is omitted or is the empty string.
C5_BookingSucceeds ==
  [][\A p \in Procs :
       C5_Hypothesis(p)
       => C5_Outcome(p, IF req'[p].input.reason \in {Omitted, ""} THEN DefaultReason
                        ELSE req'[p].input.reason)]_vars

\* A booking given the empty string as its reason succeeded, and its row has
\* the default reason.
C5_Witness ==
  \E p \in Procs :
    /\ Done(p, "bookAppointment")
    /\ result[p].kind = "ok"
    /\ req[p].input.reason = ""
    /\ appts[result[p].appt.id].reason = DefaultReason
    /\ appts[result[p].appt.id].status = "CONFIRMED"

\* C6: a getBookedTimeSlots(doctorId, date) call whose query does not fail
\* returns exactly the time labels of the rows of that doctor and date whose
\* status is CONFIRMED or COMPLETED, whatever bookings and status updates came
\* before: a label whose rows are all CANCELLED is left out, and it is back as
\* soon as one of its rows is CONFIRMED or COMPLETED again.
C6_BookedSlotsExact ==
  [][\A p \in Procs :
       ( /\ pc[p] = "idle" /\ pc'[p] = "done"
         /\ req'[p].op = "getBookedTimeSlots"
         /\ logged'[p] = "" )
       => {result'[p].slots[k] : k \in 1..Len(result'[p].slots)}
            = {appts[i].time : i \in
                 {j \in 1..Len(appts) :
                    /\ appts[j].doctorId = req'[p].input.doctorId
                    /\ appts[j].date = NewDate(req'[p].input.date)
                    /\ appts[j].status # "CANCELLED"}}]_vars

\* A slot query answered while the only appointment of a label of that doctor
\* and date was CANCELLED, and the label is not in the answer.
C6_Witness ==
  \E p \in Procs :
    /\ Done(p, "getBookedTimeSlots")
    /\ logged[p] = ""
    /\ \E i \in 1..Len(appts) :
         /\ appts[i].doctorId = req[p].input.doctorId
         /\ appts[i].date = NewDate(req[p].input.date)
         /\ appts[i].status = "CANCELLED"
         /\ \A k \in 1..Len(result[p].slots) : result[p].slots[k] # appts[i].time

\* The step that runs request p's updateAppointmentStatus.
UpdateStep(p) == pc[p] = "idle" /\ req'[p].op = "updateAppointmentStatus"

\* C7: a status update changes nothing but the status of its target row: every
\* user row, every other appointment and every other field of the target are
\* unchanged and no row is removed; setting the status a row already has, with
\* the database up, succeeds and leaves the whole store unchanged.  No step of
\* any action removes an appointment.
C7_UpdateTouchesStatusOnly ==
  [][/\ Len(appts') >= Len(appts)
     /\ \A p \in Procs :
          UpdateStep(p)
          => /\ users' = users
             /\ Len(appts') = Len(appts)
             /\ \A i \in 1..Len(appts) :
                  /\ i # req'[p].id => appts'[i] = appts[i]
                  /\ [appts'[i] EXCEPT !.status = appts[i].status] = appts[i]
             /\ ( /\ req'[p].id \in 1..Len(appts)
                  /\ appts[req'[p].id].status = req'[p].status
                  /\ logged'[p] # ErrDb )
                => (result'[p].kind = "ok" /\ appts' = appts)]_vars

\* A row was set to the status it already had, with another row in the table.
C7_Witness ==
  \E p \in Procs :
    /\ Done(p, "updateAppointmentStatus")
    /\ result[p].kind = "ok"
    /\ req[p].prev = req[p].status
    /\ Len(appts) = 2

\* C8: with the database up, updateAppointmentStatus of an existing id succeeds
\* and sets the requested status, whatever the row's status and whoever calls;
\* when it fails, a persistence call failed (the database, or no row of that
\* id), the error is the update-failed error and the store is unchanged.
C8_FlatStatusSet ==
  [][\A p \in Procs :
       UpdateStep(p)
       => /\ pc'[p] = "done"
          /\ (req'[p].id \in 1..Len(appts) /\ logged'[p] # ErrDb)
             => /\ result'[p].kind = "ok"
                /\ appts'[req'[p].id].status = req'[p].status
                /\ result'[p].row.id = req'[p].id
                /\ result'[p].row.status = req'[p].status
          /\ result'[p].kind # "ok"
             => /\ result'[p].kind = "error"
                /\ result'[p].msg = ErrUpdateFailed
                /\ logged'[p] \in {ErrDb, ErrNotFound}
                /\ logged'[p] = ErrNotFound => req'[p].id \notin 1..Len(appts)
                /\ appts' = appts
                /\ users' = users]_vars

\* A caller with no identity set a CANCELLED appointment back to CONFIRMED.
C8_Witness ==
  \E p \in Procs :
    /\ Done(p, "updateAppointmentStatus")
    /\ result[p].kind = "ok"
    /\ req[p].caller = NoCaller
    /\ req[p].prev = "CANCELLED"
    /\ req[p].status = "CONFIRMED"
    /\ appts[req[p].id].status = "CONFIRMED"

\* C9: getBookedTimeSlots and getUserAppointmentStats never throw: whatever
\* fails in them (the query, the caller's identity, the user lookup or
\* creation), the first returns the empty list and the second returns total 0
\* and completed 0.
C9_ReadsNeverRaise ==
  \A p \in Procs :
    /\ Done(p, "getBookedTimeSlots")
       => /\ result[p].kind = "ok"
          /\ logged[p] # "" => result[p].slots = <<>>
    /\ Done(p, "getUserAppointmentStats")
       => /\ result[p].kind = "ok"
          /\ logged[p] # "" => (result[p].total = 0 /\ result[p].completed = 0)

\* A count query of getUserAppointmentStats failed for a user who has
\* appointments, and the action returned zero counts.
C9_Witness ==
  \E p \in Procs :
    /\ Done(p, "getUserAppointmentStats")
    /\ logged[p] = ErrDb
    /\ dbCalls[p] >= 2
    /\ CountWhere(appts, req[p].user, AppointmentStatus) > 0
    /\ result[p].kind = "ok"
    /\ result[p].total = 0

\* C10: getCurrentDbUser calls ensureUserExists at most maxRetries times and
\* then ends: while it loops, fewer than maxRetries tries are used up; it
\* returns a user from the first attempt that yields one (every earlier attempt
\* used up a try); it throws, or returns null, only with the last try used up.
C10_BoundedRetry ==
  \A p \in Procs :
    req[p].op = "getCurrentDbUser"
    => /\ req[p].attempts <= maxRetries
       /\ pc[p] \in {"retry", "done"}
       /\ pc[p] = "retry"
          => (req[p].retries < maxRetries /\ req[p].attempts = req[p].retries)
       /\ pc[p] = "done"
          => /\ result[p].kind \in {"ok", "null", "error"}
             /\ result[p].kind = "ok"
                => /\ req[p].attempts = req[p].retries + 1
                   /\ result[p].user \in RowsOf(req[p].caller)
             /\ result[p].kind \in {"null", "error"}
                => (req[p].retries = maxRetries /\ req[p].attempts = maxRetries)
             /\ result[p].kind = "error" <=> logged[p] # ""

\* The third attempt yielded a user after two failed ones.
C10_Witness ==
  \E p \in Procs :
    /\ Done(p, "getCurrentDbUser")
    /\ result[p].kind = "ok"
    /\ req[p].attempts = maxRetries
    /\ req[p].retries = maxRetries - 1

\* (date, time label) of row i is at most that of row j
DateTimeLeq(i, j) ==
  \/ appts[i].date < appts[j].date
  \/ appts[i].date = appts[j].date /\ LabelRank(appts[i].time) <= LabelRank(appts[j].time)

\* L lists exactly the rows ids, each once and as transformAppointment gives it.
ListsExactly(L, ids) ==
  /\ Len(L) = Cardinality(ids)
  /\ {L[k].id : k \in 1..Len(L)} = ids
  /\ \A k \in 1..Len(L) : L[k] = transformAppointment(L[k].id, appts[L[k].id])

\* C11: a getUserAppointments call that succeeds returns exactly the rows of the
\* caller's user, ascending by date and, within a date, ascending by time label;
\* a getAppointments call that succeeds returns every row of the table,
\* descending by creation time.
C11_ListingsOrdered ==
  [][\A p \in Procs :
       (pc[p] # "done" /\ pc'[p] = "done" /\ result'[p].kind = "ok")
       => /\ req'[p].op = "getUserAppointments"
             => LET L == result'[p].list
                IN /\ ListsExactly(L, {i \in 1..Len(appts) :
                                         /\ appts[i].userId \in 1..Len(users)
                                         /\ users[appts[i].userId].clerkId = req'[p].caller})
                   /\ \A k \in 1..(Len(L) - 1) : DateTimeLeq(L[k].id, L[k + 1].id)
          /\ req'[p].op = "getAppointments"
             => LET L == result'[p].list
                IN /\ ListsExactly(L, 1..Len(appts))
                   /\ \A k \in 1..(Len(L) - 1) :
                        CreatedAt(L[k].id) >= CreatedAt(L[k + 1].id)]_vars

\* A caller's two appointments of one day came back with the later-booked,
\* earlier-labelled one first, while the table holds another user's row or
\* only these two.
C11_Witness ==
  \E p \in Procs :
    /\ Done(p, "getUserAppointments")
    /\ result[p].kind = "ok"
    /\ Len(result[p].list) = 2
    /\ result[p].list[1].id > result[p].list[2].id
    /\ result[p].list[1].date = result[p].list[2].date
    /\ result[p].list[1].time = "09:00"
    /\ result[p].list[2].time = "10:00"

\* C12: with bookings made only for offered labels, each (doctor, date, time
\* label) has at most one appointment whose status is not CANCELLED.
C12_OneLiveAppointmentPerSlot ==
  \A i, j \in 1..Len(appts) :
    (/\ i # j
     /\ appts[i].doctorId = appts[j].doctorId
     /\ appts[i].date = appts[j].date
     /\ appts[i].time = appts[j].time)
    => (appts[i].status = "CANCELLED" \/ appts[j].status = "CANCELLED")

\* C13: no booking or per-user query fails or degrades because another call
\* for the same external id created the user row between its read and its write:
\* no such call ends on the unique-key rejection of its user insert.
C13_UserResolutionAtomic ==
  \A p, q \in Procs :
    (/\ p # q
     /\ pc[p] = "done" /\ pc[q] = "done"
     /\ req[p].op \in {"bookAppointment", "getUserAppointments", "getUserAppointmentStats"}
     /\ req[q].op \in {"bookAppointment", "getUserAppointments", "getUserAppointmentStats"}
     /\ req[p].caller = req[q].caller)
    => logged[p] # ErrUnique

\* C14: the transcript list changes in two ways only.  A message event that is
\* a transcript tagged final appends one entry with that message's text and
\* role at the end; a start request empties the list; every other event or
\* message leaves the list as it was.
C14_TranscriptList ==
  [][IF event'.name = "message" /\ event'.msg.type = "transcript"
          /\ event'.msg.transcriptType = "final"
       THEN messages' = messages \o <<[content |-> event'.msg.transcript,
                                       role |-> event'.msg.role]>>
       ELSE IF event'.name = "click-start"
         THEN messages' = <<>>
         ELSE messages' = messages]_vars

\* Two different final transcripts were appended in their order of arrival,
\* the second one by the event just handled.
C14_Witness ==
  /\ Len(messages) = 2
  /\ messages[1] = [content |-> "my tooth hurts", role |-> "user"]
  /\ messages[2] = [content |-> "hello", role |-> "assistant"]
  /\ event.name = "message"
  /\ event.msg.transcriptType = "final"
  /\ event.msg.transcript = "hello"

\* C16: at most one of connecting, callActive and callEnded is true.
C16_OneStateFlag ==
  /\ ~(connecting /\ callActive)
  /\ ~(connecting /\ callEnded)
  /\ ~(callActive /\ callEnded)

\* A call-end was handled out of order, with the start request's promise still
\* unsettled: the widget shows an ended call only.
C16_Witness ==
  /\ event.name = "call-end"
  /\ startPending
  /\ callEnded /\ ~callActive /\ ~connecting

\* C15: with session events in call order, the widget becomes active only from
\* connecting and on call-start, and becomes ended only from active and on
\* call-end.
C15_StateOrder ==
  [][/\ (callActive' /\ ~callActive) => (connecting /\ event'.name = "call-start")
     /\ (callEnded' /\ ~callEnded) => (callActive /\ event'.name = "call-end")]_vars

\* C17: with speech events only during a call, the speaking indicator is off
\* whenever no call is active.
C17_SpeakingOnlyWhenActive == ~callActive => ~isSpeaking

\* C18 (as claimed): getCurrentDbUser returns null only when none of its
\* attempts failed with an error.
C18_Original ==
  \A p \in Procs :
    (Done(p, "getCurrentDbUser") /\ result[p].kind = "null") => dbCalls[p] = 0

\* C18 (amended): getCurrentDbUser returns null only on an attempt that found no
\* authenticated caller and was the third counted one, and throws only on an
\* attempt that failed with an error and was the third counted one; errors of
\* earlier attempts are retried and prevent neither.
C18_LastAttemptDecides ==
  [][\A p \in Procs :
       (pc[p] = "retry" /\ pc'[p] = "done")
       => /\ result'[p].kind = "null"
               => (/\ req'[p].retries = maxRetries
                   /\ dbCalls'[p] = dbCalls[p] /\ logged'[p] = "" /\ users' = users)
          /\ result'[p].kind = "error"
               => (/\ req'[p].retries = maxRetries
                   /\ dbCalls'[p] = dbCalls[p] + 1 /\ logged'[p] = ErrDb
                   /\ result'[p].msg = ErrDb)]_vars

\* A call returned null although an earlier attempt of it had failed with an
\* error.
C18_Witness ==
  \E p \in Procs :
    /\ Done(p, "getCurrentDbUser")
    /\ result[p].kind = "null"
    /\ dbCalls[p] > 0
    /\ req[p].caller # NoCaller

\* C19: every result of getUserAppointmentStats has completedAppointments at
\* most totalAppointments, also with bookings and status updates of the same
\* user running between its two count queries.
C19_CompletedAtMostTotal ==
  \A p \in Procs :
    Done(p, "getUserAppointmentStats") => result[p].completed <= result[p].total

====
